---- MODULE Spec2Model ----
(***************************************************************************)
(* Model of the road-density tool (src/tool/roaddensity.py) and of the     *)
(* map session helper (src/tool/MapSession.py).                            *)
(*                                                                         *)
(* The tool is a single-threaded pipeline.  The GIS toolkit and the        *)
(* dataframe library are external: their operations are modelled by what   *)
(* their call contracts say they do to tables (sequences of rows).         *)
(*                                                                         *)
(* Numbers that are floats in the program are exact rationals <<n, d>>     *)
(* in lowest terms here; text values are sequences of character codes.     *)
(***************************************************************************)
EXTENDS Integers, Sequences, FiniteSets, TLC

VARIABLES
    parameters,   \* self.parameters: the tool's parameter list, [name, value]
    pc,           \* position of the call in progress
    workspace,    \* datasets of config["workspace"] / results.gdb, by name
    cursor,       \* arcpy.da.UpdateCursor: index of the next row to update
    arg,          \* argument(s) of the function being called
    result,       \* value returned by the function being called
    mxd,          \* self.map_session: the map document being composed
    log           \* externally visible effects of run(), in order

vars == <<parameters, pc, workspace, cursor, arg, result, mxd, log>>

-----------------------------------------------------------------------------
(* Generic helpers *)

\* Python's None
None == [none |-> TRUE]

Min(a, b) == IF a <= b THEN a ELSE b

Abs(x) == IF x < 0 THEN -x ELSE x

RECURSIVE GCD(_, _)
GCD(a, b) == IF b = 0 THEN a ELSE GCD(b, a % b)

\* All sequences over S of length lo..hi
SeqsOf(S, lo, hi) == UNION {[1..n -> S] : n \in lo..hi}

-----------------------------------------------------------------------------
(* Exact rationals <<n, d>>, d > 0, in lowest terms (the program's floats) *)

Rat(n, d) == LET g == GCD(Abs(n), d) IN <<n \div g, d \div g>>

RatAdd(a, b) == Rat(a[1] * b[2] + b[1] * a[2], a[2] * b[2])

RatSub(a, b) == Rat(a[1] * b[2] - b[1] * a[2], a[2] * b[2])

RatAbs(a) == <<Abs(a[1]), a[2]>>

\* a / k for a positive integer k
RatDivInt(a, k) == Rat(a[1], a[2] * k)

\* a / b for b > 0
RatDiv(a, b) == Rat(a[1] * b[2], a[2] * b[1])

RatLeq(a, b) == a[1] * b[2] <= b[1] * a[2]

\* int(x) for x >= 0: truncation
IntPart(a) == a[1] \div a[2]

\* math.ceil(x)
Ceil(a) == -((-a[1]) \div a[2])

-----------------------------------------------------------------------------
(* roaddensity.py: get_param_by_name *)

\* param[-1] in place of param[0]
get_param_by_name_last(params, name) ==
    LET param == SelectSeq(params, LAMBDA i : i.name = name)
    IN  IF param # <<>> THEN param[Len(param)] ELSE None

get_param_by_name(params, name) ==
    LET param == SelectSeq(params, LAMBDA i : i.name = name)
    IN  IF param # <<>> THEN param[1] ELSE None

-----------------------------------------------------------------------------
(* Specification SpecParam: calls of get_param_by_name on parameter lists  *)
(* that may hold several parameters of one name.                           *)

MaxParams == 3

ParamNames == {"in_roads", "in_watershed"}

LookupNames == ParamNames \cup {"out_folder"}

ParamValues == 1..2

ParamInit ==
    /\ parameters \in SeqsOf([name : ParamNames, value : ParamValues], 0, MaxParams)
    /\ pc = "idle"
    /\ workspace = <<>>
    /\ cursor = 0
    /\ arg = <<>>
    /\ result = <<>>
    /\ mxd = <<>>
    /\ log = <<>>

CallGetParam ==
    \E name \in LookupNames :
        /\ arg' = name
        /\ result' = get_param_by_name(parameters, name)
        /\ pc' = "returned"
        /\ UNCHANGED <<parameters, workspace, cursor, mxd, log>>

ParamNext == CallGetParam

SpecParam == ParamInit /\ [][ParamNext]_vars

\* Indices of the parameters named name, in list order
MatchingIndices(params, name) == {i \in 1..Len(params) : params[i].name = name}

\* C5: every call of get_param_by_name(name) returns the parameter at the
\* smallest index whose name equals name (also when several parameters share
\* the name), returns None when no parameter has the name, and leaves the
\* parameters list as it was.
C5_FirstMatchOrNone ==
    [][pc' = "returned" =>
        /\ parameters' = parameters
        /\ LET idx == MatchingIndices(parameters, arg')
           IN  IF idx = {}
               THEN result' = None
               ELSE \E i \in idx : /\ \A j \in idx : i <= j
                                   /\ result' = parameters[i]]_vars

\* A lookup of a name that two parameters with different values share has
\* returned.
C5_Witness ==
    /\ pc = "returned"
    /\ \E i, j \in MatchingIndices(parameters, arg) :
          i < j /\ parameters[i].value # parameters[j].value
    /\ result # None

-----------------------------------------------------------------------------
(* MapSession.py: get_map_scale *)

scaleround ==
    [clen \in 1..9 |->
        CASE clen = 9 -> 1000000
          [] clen = 8 -> 250000
          [] clen = 7 -> 100000
          [] clen = 6 -> 5000
          [] clen = 5 -> 2500
          [] clen = 4 -> 250
          [] clen = 3 -> 25
          [] clen = 2 -> 5
          [] clen = 1 -> 1]

\* len(str(k)) for an integer k >= 0
RECURSIVE DecimalDigits(_)
DecimalDigits(k) == IF k < 10 THEN 1 ELSE 1 + DecimalDigits(k \div 10)

\* scaleround[clen] raises KeyError when clen is no key of scaleround
get_map_scale_raises(current_scale) ==
    DecimalDigits(IntPart(current_scale)) \notin DOMAIN scaleround

get_map_scale(current_scale) ==
    LET clen == DecimalDigits(IntPart(current_scale))
    IN  Ceil(RatDivInt(current_scale, scaleround[clen])) * scaleround[clen]

-----------------------------------------------------------------------------
(* Specification SpecScale: calls of get_map_scale on data-frame scales of *)
(* one to ten digits, whole or with a fractional part of one half.         *)

RECURSIVE Pow10(_)
Pow10(e) == IF e = 0 THEN 1 ELSE 10 * Pow10(e - 1)

ScaleWholes ==
    {m * Pow10(e) + o : m \in 1..9, e \in 0..8, o \in {0, 1, 12}} \cup {1000000000}

ScaleInputs == {Rat(2 * w + h, 2) : w \in ScaleWholes, h \in {0, 1}}

ScaleInit ==
    /\ parameters = <<>>
    /\ pc = "idle"
    /\ workspace = <<>>
    /\ cursor = 0
    /\ arg \in ScaleInputs
    /\ result = <<>>
    /\ mxd = <<>>
    /\ log = <<>>

CallGetMapScale ==
    /\ pc = "idle"
    /\ IF get_map_scale_raises(arg)
       THEN pc' = "raised" /\ result' = result
       ELSE pc' = "returned" /\ result' = get_map_scale(arg)
    /\ UNCHANGED <<parameters, workspace, cursor, arg, mxd, log>>

ScaleNext == CallGetMapScale

SpecScale == ScaleInit /\ [][ScaleNext]_vars

\* The rounding units the documentation of get_map_scale names
DocumentedUnits == {25000, 2500, 250, 25, 10}

\* C6: whenever get_map_scale returns a scale, that scale is current_scale
\* rounded to the nearest multiple of one of 25000, 2500, 250, 25 or 10: it is
\* a multiple of the unit and at most half a unit away from current_scale.
C6_RoundedToNearestDocumentedUnit ==
    pc = "returned" =>
        \E u \in DocumentedUnits :
            /\ result % u = 0
            /\ 2 * Abs(result * arg[2] - arg[1]) <= u * arg[2]

-----------------------------------------------------------------------------
(* roaddensity.py: tables, add_constant_field and the geoprocessing calls  *)
(* of run_spatial_analysis.                                                *)
(*                                                                         *)
(* A dataset is [fields, rows]: fields maps a field name to its text       *)
(* length, rows is the sequence of features.  A road feature carries       *)
(* origin (the input it was copied from), OBJECTID, near (its geometry     *)
(* lies within the stream buffer), ws (index of the watershed feature it   *)
(* lies in, 0 for none) and len (SHAPE@LENGTH, metres).                    *)

\* the null value of a field that was added and not yet calculated
Null == "<Null>"

Table(fields, rows) == [fields |-> fields, rows |-> rows]

\* arcpy.AddField_management(in_table, field_name, "TEXT", field_length)
AddField(table, field_name, field_length) ==
    [fields |-> (field_name :> field_length) @@ table.fields,
     rows   |-> [i \in DOMAIN table.rows |-> (field_name :> Null) @@ table.rows[i]]]

\* row[0] = field_value without rows.updateRow(row): nothing is stored
UpdateRow_not_stored(table, i, field_name, field_value) == table

\* row[0] = field_value; rows.updateRow(row), for the i-th row of the cursor
UpdateRow(table, i, field_name, field_value) ==
    [table EXCEPT !.rows[i][field_name] = field_value]

RECURSIVE UpdateRowsFrom(_, _, _, _)
UpdateRowsFrom(table, i, field_name, field_value) ==
    IF i > Len(table.rows)
    THEN table
    ELSE UpdateRowsFrom(UpdateRow(table, i, field_name, field_value),
                        i + 1, field_name, field_value)

\* add_constant_field as a whole: add the field, then update every row
add_constant_field(table, field_name, field_value) ==
    UpdateRowsFrom(AddField(table, field_name, Len(field_value) + 2),
                   1, field_name, field_value)

\* arcpy.CopyFeatures_management: the output holds the input's features
CopyFeatures(table) == Table(table.fields, table.rows)

\* arcpy.Merge_management(inputs=[t1, t2]): the features of t1, then of t2;
\* a field of both inputs keeps the definition it has in the first
Merge(t1, t2) == Table(t1.fields @@ t2.fields, t1.rows \o t2.rows)

\* arcpy.Intersect_analysis([roads, stream_buffer], join_attributes="ALL")
IntersectStreamBuffer(roads) ==
    Table(roads.fields, SelectSeq(roads.rows, LAMBDA r : r.near))

\* arcpy.Intersect_analysis([roads, watersheds], join_attributes="ALL"):
\* each road feature inside a watershed, with that watershed's attributes
IntersectWatershed(roads, watersheds, key_field) ==
    LET inside == SelectSeq(roads.rows, LAMBDA r : r.ws \in DOMAIN watersheds.rows)
    IN  Table(roads.fields @@ watersheds.fields,
              [i \in DOMAIN inside |->
                  (key_field :> watersheds.rows[inside[i].ws][key_field]) @@ inside[i]])

\* overwriteOutput = True: writing a dataset replaces one of the same name
Put(ws, name, table) == (name :> table) @@ ws

Param(name) == get_param_by_name(parameters, name).value

-----------------------------------------------------------------------------
(* Specification SpecSpatial: run_spatial_analysis, one geoprocessing call *)
(* or one cursor row per step.                                             *)

MaxRoads == 2

KeyFieldName == "WS_ID"

\* text values are sequences of character codes
KeyA == <<65>>

KeyB == <<66>>

RoadFeatures(origin, geoms, lo, hi) ==
    {[i \in DOMAIN g |->
        [origin |-> origin, OBJECTID |-> i,
         near |-> g[i].near, ws |-> g[i].ws, len |-> g[i].len]] :
     g \in SeqsOf(geoms, lo, hi)}

SpatialGeoms == [near : BOOLEAN, ws : 0..1, len : {250}]

SpatialWatersheds ==
    Table(KeyFieldName :> 10, <<(KeyFieldName :> KeyA) @@ [area |-> 2000000]>>)

ToolParameters(streams, watersheds, roads, proposed) ==
    << [name |-> "in_streams", value |-> streams],
       [name |-> "in_watershed", value |-> watersheds],
       [name |-> "in_watershed_id", value |-> KeyFieldName],
       [name |-> "in_roads", value |-> roads],
       [name |-> "in_proposed_roads", value |-> proposed],
       [name |-> "in_distance", value |-> "100 Meters"],
       [name |-> "out_folder", value |-> "out" ] >>

SpatialInit ==
    /\ \E roads \in RoadFeatures("in_roads", SpatialGeoms, 0, MaxRoads),
          proposed \in RoadFeatures("in_proposed_roads", SpatialGeoms, 0, MaxRoads) :
          parameters = ToolParameters("streams", SpatialWatersheds,
                                      Table(<<>>, roads), Table(<<>>, proposed))
    /\ pc = "buffer_streams"
    /\ workspace = <<>>
    /\ cursor = 0
    /\ arg = <<>>
    /\ result = <<>>
    /\ mxd = <<>>
    /\ log = <<>>

\* lines 184-198: select the streams that overlap the watersheds, buffer them
BufferStreams ==
    /\ pc = "buffer_streams"
    /\ workspace' = Put(workspace, "stream_buffer", Table(<<>>, <<[dissolved |-> TRUE]>>))
    /\ pc' = "copy_original"
    /\ UNCHANGED <<parameters, cursor, arg, result, mxd, log>>

\* a CopyFeatures_management call of run_spatial_analysis
CopyStep(here, param, out, next) ==
    /\ pc = here
    /\ workspace' = Put(workspace, out, CopyFeatures(Param(param)))
    /\ pc' = next
    /\ UNCHANGED <<parameters, cursor, arg, result, mxd, log>>

\* add_constant_field, lines 69-74: add the field and open the cursor
AddFieldStep(here, table_name, field_name, field_value, next) ==
    /\ pc = here
    /\ workspace' = Put(workspace, table_name,
                        AddField(workspace[table_name], field_name, Len(field_value) + 2))
    /\ cursor' = 1
    /\ pc' = next
    /\ UNCHANGED <<parameters, arg, result, mxd, log>>

\* add_constant_field, lines 75-77: one iteration of the cursor loop
UpdateRowStep(here, table_name, field_name, field_value) ==
    /\ pc = here
    /\ cursor <= Len(workspace[table_name].rows)
    /\ workspace' = Put(workspace, table_name,
                        UpdateRow(workspace[table_name], cursor, field_name, field_value))
    /\ cursor' = cursor + 1
    /\ UNCHANGED <<parameters, pc, arg, result, mxd, log>>

\* add_constant_field: the cursor is exhausted, the function returns
CursorDoneStep(here, table_name, next) ==
    /\ pc = here
    /\ cursor > Len(workspace[table_name].rows)
    /\ cursor' = 0
    /\ pc' = next
    /\ UNCHANGED <<parameters, workspace, arg, result, mxd, log>>

CopyOriginal == CopyStep("copy_original", "in_roads", "original_roads", "tag_original")

AddFieldOriginal ==
    AddFieldStep("tag_original", "original_roads", "ROAD_TYPE", "Pre-Development",
                 "update_original")

UpdateOriginal ==
    UpdateRowStep("update_original", "original_roads", "ROAD_TYPE", "Pre-Development")

DoneOriginal == CursorDoneStep("update_original", "original_roads", "copy_proposed")

CopyProposed ==
    CopyStep("copy_proposed", "in_proposed_roads", "proposed_roads", "tag_proposed")

AddFieldProposed ==
    AddFieldStep("tag_proposed", "proposed_roads", "ROAD_TYPE", "Proposed",
                 "update_proposed")

UpdateProposed ==
    UpdateRowStep("update_proposed", "proposed_roads", "ROAD_TYPE", "Proposed")

DoneProposed == CursorDoneStep("update_proposed", "proposed_roads", "merge")

\* lines 216-218
MergeRoads ==
    /\ pc = "merge"
    /\ workspace' = Put(workspace, "roads_combined",
                        Merge(workspace["original_roads"], workspace["proposed_roads"]))
    /\ pc' = "intersect_streams"
    /\ UNCHANGED <<parameters, cursor, arg, result, mxd, log>>

\* lines 221-225
IntersectStreams ==
    /\ pc = "intersect_streams"
    /\ workspace' = Put(workspace, "intersected_streams_roads",
                        IntersectStreamBuffer(workspace["roads_combined"]))
    /\ pc' = "intersect_watershed"
    /\ UNCHANGED <<parameters, cursor, arg, result, mxd, log>>

\* lines 227-233
IntersectWatersheds ==
    /\ pc = "intersect_watershed"
    /\ workspace' = Put(workspace, "intersected_roads_watershed",
                        IntersectWatershed(workspace["intersected_streams_roads"],
                                           Param("in_watershed"), Param("in_watershed_id")))
    /\ result' = "intersected_roads_watershed"
    /\ pc' = "returned"
    /\ UNCHANGED <<parameters, cursor, arg, mxd, log>>

SpatialNext ==
    \/ BufferStreams
    \/ CopyOriginal \/ AddFieldOriginal \/ UpdateOriginal \/ DoneOriginal
    \/ CopyProposed \/ AddFieldProposed \/ UpdateProposed \/ DoneProposed
    \/ MergeRoads \/ IntersectStreams \/ IntersectWatersheds

SpecSpatial == SpatialInit /\ [][SpatialNext]_vars

\* every feature of the table has a ROAD_TYPE, which names its origin
TaggedByOrigin(table) ==
    \A i \in DOMAIN table.rows :
        LET r == table.rows[i]
        IN  /\ "ROAD_TYPE" \in DOMAIN r
            /\ r.ROAD_TYPE = "Pre-Development" <=> r.origin = "in_roads"
            /\ r.ROAD_TYPE = "Proposed" <=> r.origin = "in_proposed_roads"

\* C3: every feature of roads_combined, and so every feature that reaches
\* either intersection, carries a ROAD_TYPE that is 'Pre-Development' exactly
\* when it was copied from in_roads and 'Proposed' exactly when it was copied
\* from in_proposed_roads; once roads_combined exists, both copies are fully
\* tagged.
C3_RoadTypeNamesOrigin ==
    /\ \A name \in {"roads_combined", "intersected_streams_roads",
                    "intersected_roads_watershed"} \cap DOMAIN workspace :
          TaggedByOrigin(workspace[name])
    /\ "roads_combined" \in DOMAIN workspace =>
          /\ TaggedByOrigin(workspace["original_roads"])
          /\ TaggedByOrigin(workspace["proposed_roads"])
          /\ Len(workspace["roads_combined"].rows)
                = Len(Param("in_roads").rows) + Len(Param("in_proposed_roads").rows)

\* The analysis has returned with features of both inputs in the final
\* intersection, from inputs of two features each.
C3_Witness ==
    /\ pc = "returned"
    /\ Len(Param("in_roads").rows) >= 2
    /\ Len(Param("in_proposed_roads").rows) >= 2
    /\ \E i, j \in DOMAIN workspace["intersected_roads_watershed"].rows :
          /\ workspace["intersected_roads_watershed"].rows[i].ROAD_TYPE = "Pre-Development"
          /\ workspace["intersected_roads_watershed"].rows[j].ROAD_TYPE = "Proposed"

-----------------------------------------------------------------------------
(* roaddensity.py: table_to_dataframe, run_summary_analysis, and the       *)
(* dataframe operations they call.                                         *)
(*                                                                         *)
(* A dataframe is [columns, rows]: the set of column names and the         *)
(* sequence of rows, each a function from column name to value.  NaN is    *)
(* the rational 0/0.                                                       *)

NaN == <<0, 0>>

Zero == <<0, 1>>

DataFrame(columns, rows) == [columns |-> columns, rows |-> rows]

RECURSIVE RatSum(_)
RatSum(values) ==
    IF values = <<>> THEN Zero ELSE RatAdd(Head(values), RatSum(Tail(values)))

\* lexicographic order of text values
RECURSIVE KeyLess(_, _)
KeyLess(a, b) ==
    IF a = <<>> THEN b # <<>>
    ELSE IF b = <<>> THEN FALSE
    ELSE IF Head(a) # Head(b) THEN Head(a) < Head(b)
    ELSE KeyLess(Tail(a), Tail(b))

\* the values of S in ascending order
RECURSIVE SortKeys(_)
SortKeys(S) ==
    IF S = {} THEN <<>>
    ELSE LET least == CHOOSE k \in S : \A other \in S \ {k} : KeyLess(k, other)
         IN  <<least>> \o SortKeys(S \ {least})

\* the value a cursor returns for a field name or geometry token
FieldValue(row, field) ==
    CASE field = "SHAPE@LENGTH" -> Rat(row.len, 1)
      [] field = "SHAPE@AREA"   -> Rat(row.area, 1)
      [] OTHER                  -> row[field]

\* table_to_dataframe(table, field_names)
table_to_dataframe(table, field_names) ==
    DataFrame(field_names,
              [i \in DOMAIN table.rows |->
                  [f \in field_names |-> FieldValue(table.rows[i], f)]])

\* DataFrame.fillna(0)
fillna0(df) ==
    DataFrame(df.columns,
              [i \in DOMAIN df.rows |->
                  [c \in df.columns |-> IF df.rows[i][c] = NaN THEN Zero ELSE df.rows[i][c]]])

\* the values of column values in the rows where column by holds k
ValuesWhere(df, by, k, values) ==
    LET sel == SelectSeq(df.rows, LAMBDA r : r[by] = k)
    IN  [i \in DOMAIN sel |-> sel[i][values]]

\* df.pivot_table(index, columns, values, aggfunc="sum"), reset_index()
pivot_table_sum(df, index, columns, values) ==
    LET keys == SortKeys({df.rows[i][index] : i \in DOMAIN df.rows})
        cols == {df.rows[i][columns] : i \in DOMAIN df.rows}
        Cell(k, c) ==
            LET sel == SelectSeq(df.rows, LAMBDA r : r[index] = k /\ r[columns] = c)
            IN  IF sel = <<>> THEN NaN
                ELSE RatSum([i \in DOMAIN sel |-> sel[i][values]])
    IN  DataFrame({index} \cup cols,
                  [i \in DOMAIN keys |->
                      (index :> keys[i]) @@ [c \in cols |-> Cell(keys[i], c)]])

\* df.groupby([key]).sum(), reset_index()
groupby_sum(df, key, values) ==
    LET keys == SortKeys({df.rows[i][key] : i \in DOMAIN df.rows})
    IN  DataFrame({key, values},
                  [i \in DOMAIN keys |->
                      (key :> keys[i]) @@
                      (values :> RatSum(ValuesWhere(df, key, keys[i], values)))])

\* pd.merge(left, right, on=key, how='outer')
merge_outer(left, right, key) ==
    LET KeysOf(df) == {df.rows[i][key] : i \in DOMAIN df.rows}
        keys == SortKeys(KeysOf(left) \cup KeysOf(right))
        Value(df, k, c) ==
            IF k \in KeysOf(df)
            THEN (CHOOSE r \in {df.rows[i] : i \in DOMAIN df.rows} : r[key] = k)[c]
            ELSE NaN
        Row(k) ==
            (key :> k) @@
            [c \in left.columns \ {key} |-> Value(left, k, c)] @@
            [c \in right.columns \ {key} |-> Value(right, k, c)]
    IN  DataFrame(left.columns \cup right.columns, [i \in DOMAIN keys |-> Row(keys[i])])

\* line 272 with the divisor of line 269: square metres divided by 1000
ToSquareKm_thousand(area) == RatDivInt(area, 1000)

\* newdf['SHAPE@AREA'] / 1000000
ToSquareKm(area) == RatDivInt(area, 1000000)

\* lines 268-274: the calculated columns of one row
CalculatedColumns(row) ==
    LET total_km  == RatDivInt(RatAdd(row["Pre-Development"], row["Proposed"]), 1000)
        proposed  == RatDivInt(row["Proposed"], 1000)
        existing  == RatDivInt(row["Pre-Development"], 1000)
        total     == RatAdd(existing, proposed)
        area      == ToSquareKm(row["SHAPE@AREA"])
    IN  ("total-road-km" :> total_km) @@
        [ proposed_road_length    |-> proposed,
          existing_road_length    |-> existing,
          total_road_length       |-> total,
          watershed_area          |-> area,
          future_road_density     |-> RatDiv(total, area),
          original_road_density   |-> RatDiv(existing, area) ] @@ row

\* lines 242-264: the merged frame of watershed areas and road lengths
summary_merged(spatial_result, params) ==
    LET key_field == get_param_by_name(params, "in_watershed_id").value
        roads_df == table_to_dataframe(spatial_result,
                                       {key_field, "ROAD_TYPE", "SHAPE@LENGTH"})
        road_watershed_df ==
            fillna0(pivot_table_sum(roads_df, key_field, "ROAD_TYPE", "SHAPE@LENGTH"))
        watersheds_df ==
            table_to_dataframe(get_param_by_name(params, "in_watershed").value,
                               {key_field, "SHAPE@AREA"})
        watershed_areas_df == groupby_sum(watersheds_df, key_field, "SHAPE@AREA")
    IN  fillna0(merge_outer(watershed_areas_df, road_watershed_df, key_field))

\* newdf['Pre-Development'] or newdf['Proposed'] names no column: KeyError
run_summary_analysis_raises(spatial_result, params) ==
    ~ ({"Pre-Development", "Proposed"} \subseteq summary_merged(spatial_result, params).columns)

run_summary_analysis(spatial_result, params) ==
    LET newdf == summary_merged(spatial_result, params)
    IN  DataFrame(newdf.columns \cup
                      {"total-road-km", "proposed_road_length", "existing_road_length",
                       "total_road_length", "watershed_area", "future_road_density",
                       "original_road_density"},
                  [i \in DOMAIN newdf.rows |-> CalculatedColumns(newdf.rows[i])])

\* run_spatial_analysis as a whole: the datasets it leaves in the workspace
run_spatial_analysis(ws, params) ==
    LET P(name) == get_param_by_name(params, name).value
        original == add_constant_field(CopyFeatures(P("in_roads")),
                                       "ROAD_TYPE", "Pre-Development")
        proposed == add_constant_field(CopyFeatures(P("in_proposed_roads")),
                                       "ROAD_TYPE", "Proposed")
        combined == Merge(original, proposed)
        near     == IntersectStreamBuffer(combined)
        inside   == IntersectWatershed(near, P("in_watershed"), P("in_watershed_id"))
    IN  Put(Put(Put(Put(Put(Put(ws,
            "stream_buffer", Table(<<>>, <<[dissolved |-> TRUE]>>)),
            "original_roads", original),
            "proposed_roads", proposed),
            "roads_combined", combined),
            "intersected_streams_roads", near),
            "intersected_roads_watershed", inside)

-----------------------------------------------------------------------------
(* Specification SpecSummary: run_summary_analysis on the result of the    *)
(* spatial analysis of bounded inputs.                                     *)

MaxSegments == 2

\* watershed features: key and SHAPE@AREA (square metres); one key may have
\* several features
WatershedTables ==
    {Table(KeyFieldName :> 10,
           [i \in DOMAIN w |-> (KeyFieldName :> w[i].key) @@ [area |-> w[i].area]]) :
     w \in SeqsOf([key : {KeyA, KeyB}, area : {500000, 2000000}], 1, 2)}

SummaryInit ==
    /\ \E watersheds \in WatershedTables :
       \E roads \in RoadFeatures("in_roads",
                     [near : {TRUE}, ws : DOMAIN watersheds.rows, len : {250, 1250}],
                     0, MaxSegments),
          proposed \in RoadFeatures("in_proposed_roads",
                     [near : {TRUE}, ws : DOMAIN watersheds.rows, len : {500}],
                     0, MaxSegments) :
          /\ parameters = ToolParameters("streams", watersheds,
                                         Table(<<>>, roads), Table(<<>>, proposed))
          /\ workspace = run_spatial_analysis(<<>>, parameters)
    /\ pc = "summary"
    /\ cursor = 0
    /\ arg = "intersected_roads_watershed"
    /\ result = <<>>
    /\ mxd = <<>>
    /\ log = <<>>

CallRunSummaryAnalysis ==
    /\ pc = "summary"
    /\ IF run_summary_analysis_raises(workspace[arg], parameters)
       THEN pc' = "raised" /\ result' = result
       ELSE pc' = "returned" /\ result' = run_summary_analysis(workspace[arg], parameters)
    /\ UNCHANGED <<parameters, workspace, cursor, arg, mxd, log>>

SummaryNext == CallRunSummaryAnalysis

SpecSummary == SummaryInit /\ [][SummaryNext]_vars

RECURSIVE IntSum(_)
IntSum(values) == IF values = <<>> THEN 0 ELSE Head(values) + IntSum(Tail(values))

\* summed SHAPE@LENGTH (metres) of the segments of watershed key k and road
\* type t in the spatial result
SegmentMetres(k, t) ==
    LET sel == SelectSeq(workspace["intersected_roads_watershed"].rows,
                         LAMBDA r : r[KeyFieldName] = k /\ r.ROAD_TYPE = t)
    IN  IntSum([i \in DOMAIN sel |-> sel[i].len])

\* summed SHAPE@AREA (square metres) of the watershed features of key k
WatershedSquareMetres(k) ==
    LET sel == SelectSeq(Param("in_watershed").rows, LAMBDA r : r[KeyFieldName] = k)
    IN  IntSum([i \in DOMAIN sel |-> sel[i].area])

\* n/d as a rational equals x
IsQuotient(x, n, d) == x[2] > 0 /\ x[1] * d = n * x[2]

\* C1: every row returned by run_summary_analysis has, for its watershed key,
\* existing_road_length and proposed_road_length equal to the summed
\* 'Pre-Development' and 'Proposed' segment lengths divided by 1000,
\* total_road_length their sum, watershed_area the summed SHAPE@AREA divided by
\* 1000000, original_road_density = existing_road_length / watershed_area and
\* future_road_density = total_road_length / watershed_area; there is one row
\* for each watershed key.
C1_DensitiesPerWatershed ==
    pc = "returned" =>
        /\ \A i \in DOMAIN result.rows :
              LET row  == result.rows[i]
                  k    == row[KeyFieldName]
                  pre  == SegmentMetres(k, "Pre-Development")
                  prop == SegmentMetres(k, "Proposed")
                  area == WatershedSquareMetres(k)
              IN  /\ IsQuotient(row.existing_road_length, pre, 1000)
                  /\ IsQuotient(row.proposed_road_length, prop, 1000)
                  /\ IsQuotient(row.total_road_length, pre + prop, 1000)
                  /\ IsQuotient(row.watershed_area, area, 1000000)
                  /\ row.original_road_density
                        = RatDiv(row.existing_road_length, row.watershed_area)
                  /\ row.future_road_density
                        = RatDiv(row.total_road_length, row.watershed_area)
                  /\ IsQuotient(row.original_road_density, 1000 * pre, area)
                  /\ IsQuotient(row.future_road_density, 1000 * (pre + prop), area)
        /\ \A j \in DOMAIN Param("in_watershed").rows :
              Cardinality({i \in DOMAIN result.rows :
                  result.rows[i][KeyFieldName]
                      = Param("in_watershed").rows[j][KeyFieldName]}) = 1

\* A summary has returned for two watershed keys, one of them with several
\* 'Pre-Development' segments and a proposed segment, the other with no road
\* at all.
C1_Witness ==
    /\ pc = "returned"
    /\ Len(result.rows) = 2
    /\ \E i, j \in DOMAIN result.rows :
          /\ result.rows[i].original_road_density # Zero
          /\ result.rows[i].future_road_density # result.rows[i].original_road_density
          /\ Len(SelectSeq(workspace["intersected_roads_watershed"].rows,
                           LAMBDA r : /\ r[KeyFieldName] = result.rows[i][KeyFieldName]
                                      /\ r.ROAD_TYPE = "Pre-Development")) >= 2
          /\ result.rows[j].future_road_density = Zero

-----------------------------------------------------------------------------
(* roaddensity.py: simple_report *)

\* values[:20]
ReportLimit == 20

\* rows in non-decreasing order of column (ascending left at its default)
RECURSIVE sort_ascending(_, _, _)
sort_ascending(rows, column, ties) ==
    IF rows = <<>> THEN <<>>
    ELSE LET rest == sort_ascending(SubSeq(rows, 1, Len(rows) - 1), column, ties)
             row  == rows[Len(rows)]
             Before(r) == IF ties = "input order"
                          THEN RatLeq(r[column], row[column])
                          ELSE ~RatLeq(row[column], r[column])
             k    == Cardinality({i \in DOMAIN rest : Before(rest[i])})
         IN  SubSeq(rest, 1, k) \o <<row>> \o SubSeq(rest, k + 1, Len(rest))

\* result_df.sort([column], ascending=False): rows in non-increasing order of
\* column.  The sort is not stable: rows of equal value come out in input
\* order or in reverse input order (ties).
RECURSIVE sort_descending(_, _, _)
sort_descending(rows, column, ties) ==
    IF rows = <<>> THEN <<>>
    ELSE LET rest == sort_descending(SubSeq(rows, 1, Len(rows) - 1), column, ties)
             row  == rows[Len(rows)]
             Before(r) == IF ties = "input order"
                          THEN RatLeq(row[column], r[column])
                          ELSE ~RatLeq(r[column], row[column])
             k    == Cardinality({i \in DOMAIN rest : Before(rest[i])})
         IN  SubSeq(rest, 1, k) \o <<row>> \o SubSeq(rest, k + 1, Len(rest))

\* '{:.27}'.format(text): at most the first 27 characters
FormatKey(text) == SubSeq(text, 1, Min(Len(text), 27))

\* '{:.6f}'.format(x) for x >= 0: x rounded to a whole number of millionths
Format6f(x) == (2 * x[1] * 1000000 + x[2]) \div (2 * x[2])

\* lines 310-317: the rows the report shows
report_values(result_df, key_field, ties) ==
    LET changed == [i \in DOMAIN result_df.rows |->
                       ("change_in_density" :>
                           RatAbs(RatSub(result_df.rows[i].original_road_density,
                                         result_df.rows[i].future_road_density)))
                       @@ result_df.rows[i]]
        sorted  == sort_descending(changed, "change_in_density", ties)
        values  == [i \in DOMAIN sorted |->
                       <<sorted[i][key_field], sorted[i].original_road_density,
                         sorted[i].future_road_density, sorted[i].change_in_density>>]
    IN  SubSeq(values, 1, Min(Len(values), ReportLimit))

ReportHeader(key_field) == <<"<BOL>", key_field, "Exiting", "Future", "Change", "</BOL>">>

\* simple_report: the lines of output_table
simple_report(result_df, params, ties) ==
    LET key_field == get_param_by_name(params, "in_watershed_id").value
        values    == report_values(result_df, key_field, ties)
    IN  IF Len(values) > 0
        THEN <<ReportHeader(key_field)>> \o
             [i \in DOMAIN values |->
                 <<FormatKey(values[i][1]), Format6f(values[i][2]),
                   Format6f(values[i][3]), Format6f(values[i][4])>>]
        ELSE <<"Unable to find assessment data">>

-----------------------------------------------------------------------------
(* Specification SpecReport: simple_report on result frames of up to       *)
(* MaxRows watersheds, with and without equal changes in density.          *)

MaxRows == 22

\* the key of the i-th watershed: "W00", "W01", ...
ReportKey(i) == <<87, 48 + (i \div 10), 48 + (i % 10)>>

\* a result frame of n rows: original_road_density in halves, the density
\* gained from proposed roads in quarters
ReportFrame(n, a, b, c, m) ==
    DataFrame({KeyFieldName, "original_road_density", "future_road_density"},
              [i \in 1..n |->
                  LET original == Rat((i * a) % 7, 2)
                  IN  (KeyFieldName :> ReportKey(i)) @@
                      [original_road_density |-> original,
                       future_road_density   |-> RatAdd(original, Rat((i * b + c) % m, 4))]])

ReportInit ==
    /\ parameters = ToolParameters("streams", SpatialWatersheds,
                                   Table(<<>>, <<>>), Table(<<>>, <<>>))
    /\ pc = "report"
    /\ workspace = <<>>
    /\ cursor = 0
    /\ \E n \in 0..MaxRows, a \in {1, 3}, b \in {1, 2, 5}, c \in {0, 3}, m \in {3, 11, 29} :
          arg = ReportFrame(n, a, b, c, m)
    /\ result = <<>>
    /\ mxd = <<>>
    /\ log = <<>>

CallSimpleReport ==
    /\ pc = "report"
    /\ \E ties \in {"input order", "reverse order"} :
          result' = simple_report(arg, parameters, ties)
    /\ pc' = "returned"
    /\ UNCHANGED <<parameters, workspace, cursor, arg, mxd, log>>

ReportNext == CallSimpleReport

SpecReport == ReportInit /\ [][ReportNext]_vars

\* |original_road_density - future_road_density| of the i-th input row, as
\* the pair <<numerator, denominator>> of the difference of the two fractions
InputChange(i) ==
    LET o == arg.rows[i].original_road_density
        f == arg.rows[i].future_road_density
    IN  <<Abs(o[1] * f[2] - f[1] * o[2]), o[2] * f[2]>>

ChangeAtMost(x, y) == x[1] * y[2] <= y[1] * x[2]

\* the input row a report line shows
InputRowOf(line) == CHOOSE i \in DOMAIN arg.rows : FormatKey(arg.rows[i][KeyFieldName]) = line[1]

\* C4: for a result of n >= 1 rows the report is a header line followed by
\* min(n, 20) rows; each is a different row of the result, shown with its
\* densities and its change; they are in non-increasing order of
\* change_in_density; and no row left out has a larger change than a row shown.
C4_ReportTopChanges ==
    (pc = "returned" /\ Len(arg.rows) >= 1) =>
        LET n     == Len(arg.rows)
            shown == [j \in 1..(Len(result) - 1) |-> InputRowOf(result[j + 1])]
        IN  /\ Len(result) = 1 + Min(n, 20)
            /\ result[1] = ReportHeader(KeyFieldName)
            /\ \A j \in DOMAIN shown :
                  /\ \E i \in DOMAIN arg.rows :
                        FormatKey(arg.rows[i][KeyFieldName]) = result[j + 1][1]
                  /\ result[j + 1][2] = Format6f(arg.rows[shown[j]].original_road_density)
                  /\ result[j + 1][3] = Format6f(arg.rows[shown[j]].future_road_density)
                  /\ result[j + 1][4] = Format6f(InputChange(shown[j]))
            /\ \A j, k \in DOMAIN shown : j # k => shown[j] # shown[k]
            /\ \A j \in DOMAIN shown :
                  j < Len(shown) => ChangeAtMost(InputChange(shown[j + 1]), InputChange(shown[j]))
            /\ \A i \in DOMAIN arg.rows :
                  (\A j \in DOMAIN shown : shown[j] # i) =>
                      \A j \in DOMAIN shown : ChangeAtMost(InputChange(i), InputChange(shown[j]))

\* A report of a result with more than 20 rows has been produced, the rows
\* differ in their change, and a row with a positive change was left out.
C4_Witness ==
    /\ pc = "returned"
    /\ Len(arg.rows) > 20
    /\ Len(result) = 21
    /\ result[2][4] > result[21][4]
    /\ \E i \in DOMAIN arg.rows :
          /\ InputChange(i)[1] > 0
          /\ \A j \in 2..21 : result[j][1] # FormatKey(arg.rows[i][KeyFieldName])

-----------------------------------------------------------------------------
(* roaddensity.py: export_results_table, generate_pdf_mxd and run *)

\* the fields export_results_table writes, after the key field
ResultFields ==
    {"watershed_area", "existing_road_length", "proposed_road_length",
     "total_road_length", "original_road_density", "future_road_density"}

\* export_results_table: create_result_table, then dataframe_to_table
export_results_table(dataframe, key_field) ==
    LET fields == {key_field} \cup ResultFields
    IN  Table([f \in fields |-> 0],
              [i \in DOMAIN dataframe.rows |-> [f \in fields |-> dataframe.rows[i][f]]])

\* arcpy.JoinField_management(in_data, in_field, join_table, join_field): each
\* row of in_data gains the fields of the first join_table row of equal key
JoinField(in_data, in_field, join_table, join_field) ==
    LET Joined(row) ==
            LET match == SelectSeq(join_table.rows, LAMBDA j : j[join_field] = row[in_field])
                gained == DOMAIN join_table.fields \ {join_field}
            IN  row @@ [f \in gained |-> IF match = <<>> THEN NaN ELSE match[1][f]]
    IN  Table(in_data.fields @@ join_table.fields,
              [i \in DOMAIN in_data.rows |-> Joined(in_data.rows[i])])

\* generate_pdf_mxd, lines 338-370: the map document once its layers, scale
\* and text elements are set
generate_pdf_mxd_document(doc, result_layer, result_df, params, ties) ==
    [sources       |-> [existing_density |-> result_layer,
                        proposed_density |-> result_layer,
                        proposed_roads   |-> "in_proposed_roads"],
     scale         |-> get_map_scale(doc.scale),
     subTitleText  |-> <<"Density is based on roads within",
                         get_param_by_name(params, "in_distance").value,
                         "of a stream centerline">>,
     tableTextArea |-> simple_report(result_df, params, ties)]

\* run() with the PDF exported before the results are joined to the polygons
StepAfter_pdf_before_join(step) ==
    CASE step = "ensure_gdb"  -> "spatial"
      [] step = "spatial"     -> "summary"
      [] step = "summary"     -> "export_table"
      [] step = "export_table" -> "copy_polygons"
      [] step = "copy_polygons" -> "compose_map"
      [] step = "compose_map" -> "export_pdf"
      [] step = "export_pdf"  -> "join"
      [] step = "join"        -> "save_mxd"
      [] step = "save_mxd"    -> "done"

\* the statement that follows each statement of run() and generate_pdf_mxd()
StepAfter(step) ==
    CASE step = "ensure_gdb"  -> "spatial"
      [] step = "spatial"     -> "summary"
      [] step = "summary"     -> "export_table"
      [] step = "export_table" -> "copy_polygons"
      [] step = "copy_polygons" -> "join"
      [] step = "join"        -> "compose_map"
      [] step = "compose_map" -> "export_pdf"
      [] step = "export_pdf"  -> "save_mxd"
      [] step = "save_mxd"    -> "done"

-----------------------------------------------------------------------------
(* Specification Spec: one invocation of run(), one statement per step.    *)

RunGeoms == [near : BOOLEAN, ws : {1}, len : {750}]

RunWatershedTables ==
    {Table(KeyFieldName :> 10,
           [i \in DOMAIN w |-> (KeyFieldName :> w[i]) @@ [area |-> 500000]]) :
     w \in {<<KeyA>>, <<KeyA, KeyB>>}}

\* the scale of the 'Existing' data frame once its extent is the result layer's
RunScales == {Rat(24000, 1), Rat(1234567, 2), Rat(999, 1)}

Init ==
    /\ \E watersheds \in RunWatershedTables,
          roads \in RoadFeatures("in_roads", RunGeoms, 0, MaxRoads),
          proposed \in RoadFeatures("in_proposed_roads", RunGeoms, 0, MaxRoads) :
          parameters = ToolParameters("streams", watersheds,
                                      Table(<<>>, roads), Table(<<>>, proposed))
    /\ pc = "ensure_gdb"
    /\ \E exists \in BOOLEAN :
          workspace = IF exists THEN Put(<<>>, "results.gdb", Table(<<>>, <<>>)) ELSE <<>>
    /\ cursor = 0
    /\ arg = <<>>
    /\ result = <<>>
    /\ \E scale \in RunScales :
          mxd = [sources |-> [existing_density |-> "template", proposed_density |-> "template",
                              proposed_roads |-> "template"],
                 scale |-> scale, subTitleText |-> <<>>, tableTextArea |-> <<>>]
    /\ log = <<>>

\* lines 384-390
EnsureGdb ==
    /\ pc = "ensure_gdb"
    /\ IF "results.gdb" \notin DOMAIN workspace
       THEN /\ workspace' = Put(workspace, "results.gdb", Table(<<>>, <<>>))
            /\ log' = Append(log, "CreateFileGDB")
       ELSE UNCHANGED <<workspace, log>>
    /\ pc' = StepAfter("ensure_gdb")
    /\ UNCHANGED <<parameters, cursor, arg, result, mxd>>

\* line 393
RunSpatialAnalysis ==
    /\ pc = "spatial"
    /\ workspace' = run_spatial_analysis(workspace, parameters)
    /\ arg' = "intersected_roads_watershed"
    /\ log' = Append(log, "run_spatial_analysis")
    /\ pc' = StepAfter("spatial")
    /\ UNCHANGED <<parameters, cursor, result, mxd>>

\* line 396
RunSummaryAnalysis ==
    /\ pc = "summary"
    /\ IF run_summary_analysis_raises(workspace[arg], parameters)
       THEN pc' = "raised" /\ UNCHANGED <<result, log>>
       ELSE /\ result' = run_summary_analysis(workspace[arg], parameters)
            /\ log' = Append(log, "run_summary_analysis")
            /\ pc' = StepAfter("summary")
    /\ UNCHANGED <<parameters, workspace, cursor, arg, mxd>>

\* line 399
ExportResultsTable ==
    /\ pc = "export_table"
    /\ workspace' = Put(workspace, "results.gdb/Results",
                        export_results_table(result, Param("in_watershed_id")))
    /\ log' = Append(log, "export_results_table")
    /\ pc' = StepAfter("export_table")
    /\ UNCHANGED <<parameters, cursor, arg, result, mxd>>

\* lines 402-403
CopyResultPolygons ==
    /\ pc = "copy_polygons"
    /\ workspace' = Put(workspace, "results.gdb/result_polygons",
                        CopyFeatures(Param("in_watershed")))
    /\ log' = Append(log, "CopyFeatures result_polygons")
    /\ pc' = StepAfter("copy_polygons")
    /\ UNCHANGED <<parameters, cursor, arg, result, mxd>>

\* lines 405-408
JoinResults ==
    /\ pc = "join"
    /\ workspace' = Put(workspace, "results.gdb/result_polygons",
                        JoinField(workspace["results.gdb/result_polygons"],
                                  Param("in_watershed_id"),
                                  workspace["results.gdb/Results"],
                                  Param("in_watershed_id")))
    /\ log' = Append(log, "JoinField Results")
    /\ pc' = StepAfter("join")
    /\ UNCHANGED <<parameters, cursor, arg, result, mxd>>

\* line 411 and generate_pdf_mxd lines 338-370
ComposeMap ==
    /\ pc = "compose_map"
    /\ IF get_map_scale_raises(mxd.scale)
       THEN pc' = "raised" /\ UNCHANGED <<mxd, log>>
       ELSE /\ \E ties \in {"input order", "reverse order"} :
                  mxd' = generate_pdf_mxd_document(mxd, "results.gdb/result_polygons",
                                                   result, parameters, ties)
            /\ log' = Append(log, "compose map")
            /\ pc' = StepAfter("compose_map")
    /\ UNCHANGED <<parameters, workspace, cursor, arg, result>>

\* generate_pdf_mxd lines 373-374: the PDF shows the document and the data of
\* its result layer as they are when it is exported
ExportToPDF ==
    /\ pc = "export_pdf"
    /\ workspace' = Put(workspace, "result.pdf",
                        [document |-> mxd,
                         layer    |-> IF mxd.sources.existing_density \in DOMAIN workspace
                                      THEN workspace[mxd.sources.existing_density]
                                      ELSE Table(<<>>, <<>>)])
    /\ log' = Append(log, "ExportToPDF result.pdf")
    /\ pc' = StepAfter("export_pdf")
    /\ UNCHANGED <<parameters, cursor, arg, result, mxd>>

\* generate_pdf_mxd line 375
SaveMxd ==
    /\ pc = "save_mxd"
    /\ workspace' = Put(workspace, "result.mxd", [document |-> mxd])
    /\ log' = Append(log, "saveACopy result.mxd")
    /\ pc' = StepAfter("save_mxd")
    /\ UNCHANGED <<parameters, cursor, arg, result, mxd>>

Next ==
    \/ EnsureGdb
    \/ RunSpatialAnalysis
    \/ RunSummaryAnalysis
    \/ ExportResultsTable
    \/ CopyResultPolygons
    \/ JoinResults
    \/ ComposeMap
    \/ ExportToPDF
    \/ SaveMxd

Spec == Init /\ [][Next]_vars

\* the effects of a complete run, in the order the claim gives
ClaimedOrder ==
    << "run_spatial_analysis", "run_summary_analysis", "export_results_table",
       "CopyFeatures result_polygons", "JoinField Results", "compose map",
       "ExportToPDF result.pdf", "saveACopy result.mxd" >>

IsPrefix(a, b) == Len(a) <= Len(b) /\ a = SubSeq(b, 1, Len(a))

\* C2: the effects of run happen one after another in the fixed order: create
\* results.gdb if it is missing, run_spatial_analysis, run_summary_analysis,
\* export_results_table, copy the watersheds to result_polygons, join the
\* Results table, then generate_pdf_mxd; result.pdf exists only once the
\* Results table is written and joined to result_polygons (and shows the joined
\* layer), and result.mxd exists only once result.pdf does; a run that
\* completes has performed every effect.
C2_RunOrder ==
    /\ \/ IsPrefix(log, ClaimedOrder)
       \/ IsPrefix(log, <<"CreateFileGDB">> \o ClaimedOrder)
    /\ log # <<>> => "results.gdb" \in DOMAIN workspace
    /\ "result.pdf" \in DOMAIN workspace =>
          /\ "results.gdb/Results" \in DOMAIN workspace
          /\ "results.gdb/result_polygons" \in DOMAIN workspace
          /\ ResultFields \subseteq DOMAIN workspace["results.gdb/result_polygons"].fields
          /\ workspace["result.pdf"].layer = workspace["results.gdb/result_polygons"]
    /\ "result.mxd" \in DOMAIN workspace => "result.pdf" \in DOMAIN workspace
    /\ pc = "done" =>
          /\ "result.mxd" \in DOMAIN workspace
          /\ Len(log) >= Len(ClaimedOrder)

\* A run that had to create results.gdb has completed with result.pdf and
\* result.mxd written for two watersheds.
C2_Witness ==
    /\ pc = "done"
    /\ Head(log) = "CreateFileGDB"
    /\ "result.pdf" \in DOMAIN workspace
    /\ "result.mxd" \in DOMAIN workspace
    /\ Len(workspace["result.pdf"].layer.rows) = 2
    /\ Len(workspace["result.pdf"].document.tableTextArea) = 3

====
